---- MODULE Spec2Model ----
(***************************************************************************)
(* Model of pipeline_dp/accumulator.py: the Accumulator base class, the    *)
(* CompoundAccumulator composite and the merge() fold.                     *)
(*                                                                         *)
(* Python objects live in a heap (a sequence of object records, the index  *)
(* is the object's identity).  Every method is an operator from a heap to  *)
(* a heap, a returned reference and a raised exception; an exception       *)
(* leaves the heap as it was at the moment of the raise.                   *)
(***************************************************************************)
EXTENDS Integers, Sequences, FiniteSets, TLC

\* ------------------------------------------------------------------ bounds
\* largest number of objects (the accumulator and all its descendants) in
\* one accumulator drawn for an initial state
MaxNodes == 4
\* values fed to add_value are 1..MaxVal
MaxVal == 2
\* number of calls in one behaviour that change an accumulator: add_value
\* calls, then one add_accumulator, merge or deserialize
MaxOps == 2
\* longest iterable handed to merge
MaxMerge == 3

\* ------------------------------------------------------------------- types
Compound == "CompoundAccumulator"
\* the abstract base class; never the concrete type of an object
Base == "Accumulator"
\* the concrete metric accumulators (not part of accumulator.py)
LeafTypes == {"CountAccumulator", "SumAccumulator"}
Types == LeafTypes \cup {Compound}
Classes == Types \cup {Base}
\* Python's None as a reference
None == 0
Values == 1..MaxVal

\* -------------------------------------------------------------- exceptions
Err(kind, msg, exp, rec, pos, bt, tt) ==
  [kind |-> kind, msg |-> msg, expected_size |-> exp, received_size |-> rec,
   pos |-> pos, base_type |-> bt, to_add_type |-> tt]
NoErr == Err("", "", -1, -1, -1, "", "")
\* accumulator.py:82-85
SizeError(exp, rec) ==
  Err("ValueError", "Accumulators in the input are not of the same size.",
      exp, rec, -1, "", "")
\* accumulator.py:90-92
TypeMismatch(pos, bt, tt) ==
  Err("TypeError", "The type of the accumulators don't match at index",
      -1, -1, pos, bt, tt)
\* a concrete metric accumulator refusing an accumulator of another type
LeafTypeMismatch(bt, tt) ==
  Err("TypeError", "The accumulator to add is of another type",
      -1, -1, -1, bt, tt)
\* accumulator.py:81 reads accumulator.accumulators of an object without it
NoAttribute(tt) ==
  Err("AttributeError", "object has no attribute 'accumulators'",
      -1, -1, -1, "", tt)
\* functools.reduce on an empty iterable without an initial value
ReduceEmpty ==
  Err("TypeError", "reduce() of empty iterable with no initial value",
      -1, -1, -1, "", "")
\* accumulator.py:53
NotRightType ==
  Err("TypeError", "The deserialized object is not of the right type.",
      -1, -1, -1, "", "")

\* -------------------------------------------------------------------- heap
Obj(t, s, accs) == [type |-> t, state |-> s, accumulators |-> accs]
\* type(x)
TypeOf(h, x) == h[x].type
\* hasattr(x, "accumulators")
HasAccumulators(h, x) == h[x].type = Compound
\* issubclass(t, cls): every class derives from Accumulator, none from another
Subclass(t, cls) == t = cls \/ cls = Base
\* isinstance(x, cls)
IsInstance(h, x, cls) == Subclass(TypeOf(h, x), cls)

\* a pickled object graph: one token per object, parents before children
Tok(t, a) == [type |-> t, arg |-> a]

RECURSIVE Load(_, _)
RECURSIVE LoadN(_, _, _)
\* rebuilds the first object of toks (children first) on top of heap h
Load(h, toks) ==
  LET t == Head(toks) IN
  IF t.type = Compound
  THEN LET r  == LoadN(h, Tail(toks), t.arg)
           h2 == Append(r.heap, Obj(Compound, 0, r.ids))
       IN [heap |-> h2, id |-> Len(h2), rest |-> r.rest]
  ELSE LET h2 == Append(h, Obj(t.type, t.arg, <<>>))
       IN [heap |-> h2, id |-> Len(h2), rest |-> Tail(toks)]
LoadN(h, toks, n) ==
  IF n = 0 THEN [heap |-> h, ids |-> <<>>, rest |-> toks]
  ELSE LET r  == Load(h, toks)
           r2 == LoadN(r.heap, r.rest, n - 1)
       IN [heap |-> r2.heap, ids |-> <<r.id>> \o r2.ids, rest |-> r2.rest]

RECURSIVE Dump(_, _)
RECURSIVE DumpAll(_, _)
Dump(h, x) ==
  IF h[x].type = Compound
  THEN <<Tok(Compound, Len(h[x].accumulators))>> \o DumpAll(h, h[x].accumulators)
  ELSE <<Tok(h[x].type, h[x].state)>>
DumpAll(h, xs) ==
  IF xs = <<>> THEN <<>> ELSE Dump(h, Head(xs)) \o DumpAll(h, Tail(xs))

\* every object reachable from x, x included
RECURSIVE Descendants(_, _)
Descendants(h, x) ==
  {x} \cup UNION {Descendants(h, h[x].accumulators[i]) :
                    i \in 1..Len(h[x].accumulators)}

\* ------------------------------------------- concrete metric accumulators
\* CountAccumulator counts the values, SumAccumulator adds them up
LeafAddValue(t, s, v) == IF t = "CountAccumulator" THEN s + 1 ELSE s + v
\* merging two accumulators of one type adds their states
LeafMerge(t, s1, s2) == s1 + s2
\* add_accumulator of a concrete metric accumulator: checks that the types
\* of self and accumulator are the same, merges, returns self
LeafAddAccumulator(h, self, other) ==
  IF TypeOf(h, other) # TypeOf(h, self)
  THEN [heap |-> h, ret |-> None,
        err |-> LeafTypeMismatch(TypeOf(h, self), TypeOf(h, other))]
  ELSE [heap |-> [h EXCEPT ![self].state =
                      LeafMerge(h[self].type, @, h[other].state)],
        ret |-> self, err |-> NoErr]

\* ----------------------------------------------------- CompoundAccumulator
RECURSIVE add_value(_, _, _)
RECURSIVE AddValueEach(_, _, _)
\* faulty variant: the loop ends after the first child
AddValueFirstOnly(h, xs, v) ==
  IF xs = <<>> THEN h ELSE add_value(h, Head(xs), v).heap
\* for accumulator in self.accumulators: accumulator.add_value(value)
AddValueEach(h, xs, v) ==
  IF xs = <<>> THEN h
  ELSE AddValueEach(add_value(h, Head(xs), v).heap, Tail(xs), v)
add_value(h, self, v) ==
  IF h[self].type = Compound
  THEN [heap |-> AddValueEach(h, h[self].accumulators, v), ret |-> self]
  ELSE [heap |-> [h EXCEPT ![self].state = LeafAddValue(h[self].type, @, v)],
        ret |-> self]

\* the loop of lines 87-92: the position (from 0) of the first pair of
\* children whose types differ, -1 when the loop ends without raising
RECURSIVE FirstTypeMismatch(_, _, _, _)
\* faulty variant: the last differing position is the one reported
LastTypeMismatch(h, xs, ys, pos) ==
  LET D == {i \in 1..Len(xs) :
              i <= Len(ys) /\ TypeOf(h, xs[i]) # TypeOf(h, ys[i])}
  IN IF D = {} THEN -1
     ELSE pos - 1 + (CHOOSE m \in D : \A n \in D : n <= m)
FirstTypeMismatch(h, xs, ys, pos) ==
  IF xs = <<>> \/ ys = <<>> THEN -1
  ELSE IF TypeOf(h, Head(xs)) # TypeOf(h, Head(ys)) THEN pos
  ELSE FirstTypeMismatch(h, Tail(xs), Tail(ys), pos + 1)

RECURSIVE add_accumulator(_, _, _)
RECURSIVE MergeEach(_, _, _)
\* faulty variant: the loop ends after the first pair
MergeFirstOnly(h, xs, ys) ==
  IF xs = <<>> \/ ys = <<>> THEN [heap |-> h, err |-> NoErr]
  ELSE LET r == add_accumulator(h, Head(xs), Head(ys)) IN
       [heap |-> r.heap, err |-> r.err]
\* faulty variant: every pair is merged twice
MergeEachTwice(h, xs, ys) ==
  IF xs = <<>> \/ ys = <<>> THEN [heap |-> h, err |-> NoErr]
  ELSE LET r == add_accumulator(h, Head(xs), Head(ys)) IN
       IF r.err # NoErr THEN [heap |-> r.heap, err |-> r.err]
       ELSE LET r2 == add_accumulator(r.heap, Head(xs), Head(ys)) IN
            IF r2.err # NoErr THEN [heap |-> r2.heap, err |-> r2.err]
            ELSE MergeEach(r2.heap, Tail(xs), Tail(ys))
\* the loop of lines 94-96; an exception raised by a child ends the loop and
\* leaves the children merged so far as they are
MergeEach(h, xs, ys) ==
  IF xs = <<>> \/ ys = <<>> THEN [heap |-> h, err |-> NoErr]
  ELSE LET r == add_accumulator(h, Head(xs), Head(ys)) IN
       IF r.err # NoErr THEN [heap |-> r.heap, err |-> r.err]
       ELSE MergeEach(r.heap, Tail(xs), Tail(ys))
\* faulty variant: the types are compared before the lengths
ValidateTypesFirst(h, self, other) ==
  IF ~HasAccumulators(h, other) THEN NoAttribute(TypeOf(h, other))
  ELSE
  LET xs  == h[self].accumulators
      ys  == h[other].accumulators
      pos == FirstTypeMismatch(h, xs, ys, 0)
  IN
  IF pos # -1
  THEN TypeMismatch(pos, TypeOf(h, xs[pos + 1]), TypeOf(h, ys[pos + 1]))
  ELSE IF Len(ys) # Len(xs) THEN SizeError(Len(xs), Len(ys))
  ELSE NoErr
\* lines 81-92: the exception the two checks raise, NoErr when both pass
Validate(h, self, other) ==
  IF ~HasAccumulators(h, other) THEN NoAttribute(TypeOf(h, other))
  ELSE
  LET xs  == h[self].accumulators
      ys  == h[other].accumulators
      pos == FirstTypeMismatch(h, xs, ys, 0)
  IN
  IF Len(ys) # Len(xs) THEN SizeError(Len(xs), Len(ys))
  ELSE IF pos # -1
  THEN TypeMismatch(pos, TypeOf(h, xs[pos + 1]), TypeOf(h, ys[pos + 1]))
  ELSE NoErr
add_accumulator(h, self, other) ==
  IF h[self].type # Compound THEN LeafAddAccumulator(h, self, other)
  ELSE IF Validate(h, self, other) # NoErr
  THEN [heap |-> h, ret |-> None, err |-> Validate(h, self, other)]
  ELSE LET r == MergeEach(h, h[self].accumulators, h[other].accumulators) IN
       IF r.err # NoErr THEN [heap |-> r.heap, ret |-> None, err |-> r.err]
       ELSE [heap |-> r.heap, ret |-> self, err |-> NoErr]

\* a metric is a number, the metrics of a compound the list of its
\* children's metrics
RECURSIVE compute_metrics(_, _)
compute_metrics(h, self) ==
  IF h[self].type = Compound
  THEN [i \in 1..Len(h[self].accumulators) |->
          compute_metrics(h, h[self].accumulators[i])]
  ELSE h[self].state

\* ------------------------------------------------------------------- merge
\* functools.reduce without an initial value: the first element starts the
\* fold, calls lists the (acc1, acc2) pairs the lambda was applied to
\* faulty variant: the fold accumulates into the later element
LambdaSwapped(h, acc1, acc2) == add_accumulator(h, acc2, acc1)
\* lambda acc1, acc2: acc1.add_accumulator(acc2)
Lambda(h, acc1, acc2) == add_accumulator(h, acc1, acc2)
RECURSIVE Reduce(_, _, _, _)
Reduce(h, acc, rest, calls) ==
  IF rest = <<>> THEN [heap |-> h, ret |-> acc, err |-> NoErr, calls |-> calls]
  ELSE LET r  == Lambda(h, acc, Head(rest))
           cs == Append(calls, <<acc, Head(rest)>>)
       IN IF r.err # NoErr
          THEN [heap |-> r.heap, ret |-> None, err |-> r.err, calls |-> cs]
          ELSE Reduce(r.heap, r.ret, Tail(rest), cs)
\* faulty variant: an empty iterable gives None
mergeNoneOnEmpty(h, accumulators) ==
  IF accumulators = <<>>
  THEN [heap |-> h, ret |-> None, err |-> NoErr, calls |-> <<>>]
  ELSE Reduce(h, Head(accumulators), Tail(accumulators), <<>>)
merge(h, accumulators) ==
  IF accumulators = <<>>
  THEN [heap |-> h, ret |-> None, err |-> ReduceEmpty, calls |-> <<>>]
  ELSE Reduce(h, Head(accumulators), Tail(accumulators), <<>>)

\* ----------------------------------------------------------- serialization
\* pickle.dumps(self)
serialize(h, self) == Dump(h, self)
\* faulty variant: the type of the rebuilt object must be cls itself
deserializeExactType(h, cls, serialized_obj) ==
  LET r == Load(h, serialized_obj) IN
  IF TypeOf(r.heap, r.id) # cls
  THEN [heap |-> r.heap, ret |-> None, err |-> NotRightType]
  ELSE [heap |-> r.heap, ret |-> r.id, err |-> NoErr]
\* pickle.loads, then the isinstance check against cls
deserialize(h, cls, serialized_obj) ==
  LET r == Load(h, serialized_obj) IN
  IF ~IsInstance(r.heap, r.id, cls)
  THEN [heap |-> r.heap, ret |-> None, err |-> NotRightType]
  ELSE [heap |-> r.heap, ret |-> r.id, err |-> NoErr]

\* ----------------------------------------------------------- initial heaps
\* An accumulator is drawn as the token word of its object graph: metric
\* accumulators start at 0, a CompoundAccumulator "contains one or more
\* accumulators" and owns them (no object is shared).
Arity(tok) == IF tok.type = Compound THEN tok.arg ELSE 0
Alphabet(n) ==
  {Tok(t, 0) : t \in LeafTypes} \cup {Tok(Compound, k) : k \in 1..(n - 1)}
\* w is the word of exactly one object graph
WellFormed(w) ==
  LET need[i \in 0..Len(w)] ==
        IF i = 0 THEN 1 ELSE need[i - 1] - 1 + Arity(w[i])
  IN /\ \A i \in 0..(Len(w) - 1) : need[i] > 0
     /\ need[Len(w)] = 0
Trees(n) ==
  {w \in UNION {[1..k -> Alphabet(n)] : k \in 1..n} : WellFormed(w)}

\* the heap holding the accumulators drawn as ws, and the references to them
RECURSIVE Build(_, _, _)
Build(h, rs, ws) ==
  IF ws = <<>> THEN [heap |-> h, roots |-> rs]
  ELSE LET r == Load(h, Head(ws)) IN Build(r.heap, Append(rs, r.id), Tail(ws))

\* ------------------------------------------------------------------- state
VARIABLES
  heap,    \* the objects; heap[x] is the object with identity x
  roots,   \* the references the caller holds, in the order it got them
  result,  \* the last call: its receiver, arguments, return value, exception
  before,  \* the heap as it was when the last call was made
  wire,    \* the last serialized payload and what it was taken from
  left     \* calls that change an accumulator the caller may still make

vars == <<heap, roots, result, before, wire, left>>

Call(op, self, other, value, cls, ret, err, calls, metrics) ==
  [op |-> op, self |-> self, other |-> other, value |-> value, cls |-> cls,
   ret |-> ret, err |-> err, calls |-> calls, metrics |-> metrics]
NoCall == Call("none", None, None, 0, "", None, NoErr, <<>>, <<>>)
NoWire == [bytes |-> <<>>, src |-> None, metrics |-> <<>>]

InitWith(ws) ==
  LET b == Build(<<>>, <<>>, ws) IN
  /\ heap = b.heap
  /\ roots = b.roots
  /\ result = NoCall
  /\ before = b.heap
  /\ wire = NoWire
  /\ left = MaxOps

\* ----------------------------------------------------------------- actions
\* A behaviour feeds values to the accumulators it holds and ends with the
\* call that combines or ships them (add_accumulator, merge, deserialize):
\* the merged-in accumulators are consumed by it.  compute_metrics and
\* serialize change no accumulator and may be called at any time before.

\* roots[i].add_value(v)
AddValue ==
  \E i \in 1..Len(roots), v \in Values :
    LET r == add_value(heap, roots[i], v) IN
    /\ left > 1
    /\ heap' = r.heap
    /\ result' = Call("add_value", roots[i], None, v, "", r.ret, NoErr, <<>>, <<>>)
    /\ before' = heap
    /\ left' = left - 1
    /\ UNCHANGED <<roots, wire>>

\* roots[1].add_accumulator(roots[2])
AddAccumulator ==
  LET r == add_accumulator(heap, roots[1], roots[2]) IN
  /\ left > 0
  /\ Len(roots) = 2
  /\ heap' = r.heap
  /\ result' = Call("add_accumulator", roots[1], roots[2], 0, "", r.ret, r.err,
                    <<>>, <<>>)
  /\ before' = heap
  /\ left' = 0
  /\ UNCHANGED <<roots, wire>>

\* roots[i].compute_metrics()
ComputeMetrics ==
  \E i \in 1..Len(roots) :
    /\ left > 0
    /\ result' = Call("compute_metrics", roots[i], None, 0, "", None, NoErr, <<>>,
                      compute_metrics(heap, roots[i]))
    /\ before' = heap
    /\ UNCHANGED <<heap, roots, wire, left>>

\* merge(roots)
Merge ==
  LET r == merge(heap, roots) IN
  /\ left > 0
  /\ heap' = r.heap
  /\ result' = Call("merge", None, None, 0, "", r.ret, r.err, r.calls, <<>>)
  /\ before' = heap
  /\ left' = 0
  /\ UNCHANGED <<roots, wire>>

\* roots[i].serialize()
Serialize ==
  \E i \in 1..Len(roots) :
    /\ left > 0
    /\ wire' = [bytes |-> serialize(heap, roots[i]), src |-> roots[i],
                metrics |-> compute_metrics(heap, roots[i])]
    /\ result' = Call("serialize", roots[i], None, 0, "", None, NoErr, <<>>, <<>>)
    /\ before' = heap
    /\ UNCHANGED <<heap, roots, left>>

\* cls.deserialize(serialized_obj) on the payload last produced
Deserialize ==
  \E cls \in Classes :
    LET r == deserialize(heap, cls, wire.bytes) IN
    /\ left > 0
    /\ wire.bytes # <<>>
    /\ heap' = r.heap
    /\ roots' = IF r.err = NoErr THEN Append(roots, r.ret) ELSE roots
    /\ result' = Call("deserialize", None, wire.src, 0, cls, r.ret, r.err, <<>>, <<>>)
    /\ before' = heap
    /\ left' = 0
    /\ UNCHANGED wire

\* -------------------------------------------------------- specifications
\* two accumulators of any shape, fed and then merged
Init == \E ws \in [1..2 -> Trees(MaxNodes)] : InitWith(ws)
Next == AddValue \/ AddAccumulator
Spec == Init /\ [][Next]_vars

\* the merge utility on zero to MaxMerge accumulators built alike (one per
\* partition), or on any two accumulators
InitMerge ==
  \/ \E n \in 0..MaxMerge, w \in Trees(MaxNodes) : InitWith([k \in 1..n |-> w])
  \/ \E ws \in [1..2 -> Trees(MaxNodes - 1)] : InitWith(ws)
NextMerge == AddValue \/ Merge
SpecMerge == InitMerge /\ [][NextMerge]_vars

\* the merge utility on three accumulators built alike
InitAssoc == \E w \in Trees(MaxNodes) : InitWith(<<w, w, w>>)
SpecAssoc == InitAssoc /\ [][NextMerge]_vars

\* one accumulator: fed, read, serialized and rebuilt
InitOne == \E w \in Trees(MaxNodes) : InitWith(<<w>>)
NextOne == AddValue \/ ComputeMetrics \/ Serialize \/ Deserialize
SpecOne == InitOne /\ [][NextOne]_vars

\* ------------------------------------------------------------- vocabulary
IsCompound(h, x) == h[x].type = Compound
Kids(h, x) == h[x].accumulators
Min(S) == CHOOSE m \in S : \A n \in S : m <= n
\* the positions (from 1) where the children of x and y differ in type
Differing(h, x, y) ==
  {i \in 1..Len(Kids(h, x)) :
     i <= Len(Kids(h, y)) /\ TypeOf(h, Kids(h, x)[i]) # TypeOf(h, Kids(h, y)[i])}
\* equal concrete type, and for compounds equal length and children of the
\* same shape, at every level
RECURSIVE SameShape(_, _, _)
SameShape(h, x, y) ==
  /\ TypeOf(h, x) = TypeOf(h, y)
  /\ Len(Kids(h, x)) = Len(Kids(h, y))
  /\ \A i \in 1..Len(Kids(h, x)) : SameShape(h, Kids(h, x)[i], Kids(h, y)[i])
\* the metric accumulators below x paired with those at the same place below
\* y, for x and y of the same shape
RECURSIVE Corr(_, _, _)
Corr(h, x, y) ==
  IF IsCompound(h, x)
  THEN UNION {Corr(h, Kids(h, x)[i], Kids(h, y)[i]) : i \in 1..Len(Kids(h, x))}
  ELSE {<<x, y>>}
Leaves(h, x) == {d \in Descendants(h, x) : ~IsCompound(h, d)}
\* the last call was self.add_accumulator(other) on two CompoundAccumulators
CompoundMerge ==
  /\ result.op = "add_accumulator"
  /\ IsCompound(before, result.self)
  /\ IsCompound(before, result.other)
SelfKids == Kids(before, result.self)
OtherKids == Kids(before, result.other)

\* ------------------------------------------------------------------ claims
\* C1: merging two CompoundAccumulators whose child counts differ fails with
\* the size error naming both lengths, also when child types differ as well.
C1_LengthMismatch ==
  (CompoundMerge /\ Len(SelfKids) # Len(OtherKids)) =>
     /\ result.err = SizeError(Len(SelfKids), Len(OtherKids))
     /\ result.ret = None
C1_Witness ==
  /\ CompoundMerge
  /\ Len(SelfKids) # Len(OtherKids)
  /\ Differing(before, result.self, result.other) # {}
  /\ result.err.kind = "ValueError"
  /\ result.err.expected_size = 2
  /\ result.err.received_size = 3

\* C2 as stated: for CompoundAccumulators of equal length the call fails with a
\* type error if and only if some position holds children of different types,
\* and the error names the smallest such position and both types.
C2_TypeErrorIffPositionDiffers ==
  (CompoundMerge /\ Len(SelfKids) = Len(OtherKids)) =>
     LET D == Differing(before, result.self, result.other) IN
     /\ (result.err.kind = "TypeError") <=> (D # {})
     /\ D # {} =>
          result.err = TypeMismatch(Min(D) - 1, TypeOf(before, SelfKids[Min(D)]),
                                    TypeOf(before, OtherKids[Min(D)]))
\* C2 amended: a position with children of different types makes the call
\* fail with the type error naming the smallest such position and both types;
\* with no such position the call fails only with the error of merging two
\* children that are CompoundAccumulators, so with none among self's children
\* it raises nothing.
C2_TypeMismatch ==
  (CompoundMerge /\ Len(SelfKids) = Len(OtherKids)) =>
     LET D == Differing(before, result.self, result.other) IN
     /\ D # {} =>
          /\ result.err = TypeMismatch(Min(D) - 1,
                                       TypeOf(before, SelfKids[Min(D)]),
                                       TypeOf(before, OtherKids[Min(D)]))
          /\ result.ret = None
     /\ (D = {} /\ result.err # NoErr) =>
          \E i \in 1..Len(SelfKids) :
            /\ IsCompound(before, SelfKids[i])
            /\ result.err = add_accumulator(before, SelfKids[i], OtherKids[i]).err
     /\ (D = {} /\ \A i \in 1..Len(SelfKids) : ~IsCompound(before, SelfKids[i]))
          => result.err = NoErr
C2_Witness ==
  /\ CompoundMerge
  /\ Len(SelfKids) = Len(OtherKids)
  /\ Cardinality(Differing(before, result.self, result.other)) >= 2
  /\ result.err.kind = "TypeError"
  /\ result.err.pos = 1

\* C3: a call that fails with the size error or a type error has changed no
\* child of self: self.compute_metrics() is what it was before the call.
C3_FailureLeavesSelfUnchanged ==
  (CompoundMerge /\ result.err.kind \in {"ValueError", "TypeError"}) =>
     compute_metrics(heap, result.self) = compute_metrics(before, result.self)

\* C4 as stated: for CompoundAccumulators of equal length and position-wise
\* equal child types the call raises nothing and returns self.
C4_EqualTypesMerge ==
  (/\ CompoundMerge
   /\ Len(SelfKids) = Len(OtherKids)
   /\ Differing(before, result.self, result.other) = {}) =>
     /\ result.err = NoErr
     /\ result.ret = result.self
\* C4 amended: for CompoundAccumulators of the same shape at every level the
\* call raises nothing, returns self, adds to every metric accumulator below
\* self the state of the one at the same place below other, and changes no
\* other object.
C4_Merge ==
  (CompoundMerge /\ SameShape(before, result.self, result.other)) =>
     /\ result.err = NoErr
     /\ result.ret = result.self
     /\ \A p \in Corr(before, result.self, result.other) :
          heap[p[1]].state = before[p[1]].state + before[p[2]].state
     /\ \A x \in 1..Len(before) :
          x \notin Leaves(before, result.self) => heap[x] = before[x]
     /\ Len(heap) = Len(before)
C4_Witness ==
  /\ CompoundMerge
  /\ SameShape(before, result.self, result.other)
  /\ Len(SelfKids) = 2
  /\ TypeOf(before, SelfKids[1]) = "CountAccumulator"
  /\ IsCompound(before, SelfKids[2])
  /\ Len(Kids(before, SelfKids[2])) = 1
  /\ TypeOf(before, Kids(before, SelfKids[2])[1]) = "SumAccumulator"
  /\ compute_metrics(before, result.other) = <<1, <<2>>>>
  /\ compute_metrics(heap, result.self) = <<1, <<2>>>>

C10_OtherTypeRejected ==
  (/\ result.op = "add_accumulator"
   /\ IsCompound(before, result.self)
   /\ ~IsCompound(before, result.other)) =>
     /\ result.err.kind = "TypeError"
     /\ heap = before

\* C5: merge of an iterable that yields nothing raises the error of an empty
\* fold; it returns nothing and creates no accumulator.
C5_EmptyInput ==
  (result.op = "merge" /\ roots = <<>>) =>
     /\ result.err = ReduceEmpty
     /\ result.err # NoErr
     /\ result.ret = None
     /\ heap = <<>>
C5_Witness ==
  /\ result.op = "merge"
  /\ roots = <<>>
  /\ result.err.kind = "TypeError"

\* the accumulators handed to merge are of one shape
Mergeable == \A k \in 1..Len(roots) : SameShape(before, roots[1], roots[k])
\* the metric accumulator below y at the place of a below x
Partner(h, x, y, a) == (CHOOSE p \in Corr(h, x, y) : p[1] = a)[2]
\* the states, before the call, of the accumulators at the place of a in
\* roots[2..k], added up
RECURSIVE PartnerSum(_, _)
PartnerSum(a, k) ==
  IF k <= 1 THEN 0
  ELSE PartnerSum(a, k - 1) + before[Partner(before, roots[1], roots[k], a)].state

\* C6: merge of a non-empty iterable of mergeable accumulators a1..an returns
\* a1 itself, having called a1.add_accumulator(a2), ..., a1.add_accumulator(an)
\* in that order: every metric accumulator below a1 has absorbed those at its
\* place in a2..an, nothing else has changed; for n = 1 nothing is called and
\* nothing changes.
C6_FoldIntoFirst ==
  (result.op = "merge" /\ roots # <<>> /\ Mergeable) =>
     /\ result.err = NoErr
     /\ result.ret = roots[1]
     /\ Len(result.calls) = Len(roots) - 1
     /\ \A k \in 1..Len(result.calls) : result.calls[k] = <<roots[1], roots[k + 1]>>
     /\ Len(heap) = Len(before)
     /\ \A x \in 1..Len(before) :
          heap[x] = IF x \in Leaves(before, roots[1])
                    THEN [before[x] EXCEPT !.state = @ + PartnerSum(x, Len(roots))]
                    ELSE before[x]
     /\ Len(roots) = 1 => (heap = before /\ result.calls = <<>>)
C6_Witness ==
  /\ result.op = "merge"
  /\ Len(roots) = 3
  /\ Mergeable
  /\ IsCompound(before, roots[1])
  /\ result.ret = roots[1]
  /\ \E x \in Leaves(before, roots[1]) :
       /\ before[x].state = 0
       /\ before[Partner(before, roots[1], roots[2], x)].state = 0
       /\ before[Partner(before, roots[1], roots[3], x)].state = 2
       /\ heap[x].state = 2

\* C7: for CompoundAccumulators A, B, C of one shape, merge([merge([A,B]), C])
\* and merge([A, merge([B,C])]), each started from the same state, raise
\* nothing and give equal compute_metrics().
C7_Associative ==
  \A a, b, c \in 1..Len(roots) :
    (/\ a # b /\ b # c /\ a # c
     /\ IsCompound(heap, roots[a])
     /\ SameShape(heap, roots[a], roots[b])
     /\ SameShape(heap, roots[a], roots[c])) =>
       LET ab == merge(heap, <<roots[a], roots[b]>>)
           bc == merge(heap, <<roots[b], roots[c]>>)
       IN /\ ab.err = NoErr
          /\ bc.err = NoErr
          /\ LET l == merge(ab.heap, <<ab.ret, roots[c]>>)
                 r == merge(bc.heap, <<roots[a], bc.ret>>)
             IN /\ l.err = NoErr
                /\ r.err = NoErr
                /\ compute_metrics(l.heap, l.ret) = compute_metrics(r.heap, r.ret)
C7_Witness ==
  /\ Len(roots) = 3
  /\ IsCompound(heap, roots[1])
  /\ Len(Kids(heap, roots[1])) = 2
  /\ SameShape(heap, roots[1], roots[2])
  /\ SameShape(heap, roots[1], roots[3])
  /\ \E x \in Leaves(heap, roots[3]) : before[x].state > 0
  /\ result.op = "merge"
  /\ result.err = NoErr

\* C9 as stated: T.deserialize(A.serialize()) raises whenever the concrete
\* type of the rebuilt accumulator is not T, and returns an accumulator with
\* A's metrics when it is T.
C9_ExactTypeOrError ==
  result.op = "deserialize" =>
     /\ TypeOf(before, result.other) # result.cls => result.err = NotRightType
     /\ TypeOf(before, result.other) = result.cls =>
          /\ result.err = NoErr
          /\ compute_metrics(heap, result.ret) = wire.metrics
\* C9 amended: T.deserialize(A.serialize()) raises exactly when the rebuilt
\* accumulator is not an instance of T (its type is neither T nor a subtype of
\* T); otherwise it returns a new accumulator of A's type whose metrics are
\* those A had when serialized; serialize and deserialize change no existing
\* accumulator.
C9_RoundTrip ==
  /\ result.op = "deserialize" =>
       /\ (result.err = NotRightType)
            <=> ~Subclass(TypeOf(before, result.other), result.cls)
       /\ result.err \in {NoErr, NotRightType}
       /\ result.err = NoErr =>
            /\ result.ret \in (Len(before) + 1)..Len(heap)
            /\ TypeOf(heap, result.ret) = TypeOf(before, result.other)
            /\ compute_metrics(heap, result.ret) = wire.metrics
       /\ \A x \in 1..Len(before) : heap[x] = before[x]
  /\ result.op = "serialize" =>
       /\ heap = before
       /\ wire.src = result.self
       /\ wire.metrics = compute_metrics(heap, result.self)
C9_Witness ==
  /\ result.op = "deserialize"
  /\ result.cls = Base
  /\ result.err = NoErr
  /\ IsCompound(heap, result.ret)
  /\ Len(Kids(heap, result.ret)) = 2
  /\ TypeOf(heap, Kids(heap, result.ret)[1]) = "CountAccumulator"
  /\ TypeOf(heap, Kids(heap, result.ret)[2]) = "SumAccumulator"
  /\ compute_metrics(heap, result.ret) = <<1, 2>>
  /\ compute_metrics(heap, result.other) = <<1, 2>>

====
